---- MODULE Spec2Model ----
(***************************************************************************)
(* The elbow-point selection of the notebook "Modeling Weather Geographies *)
(* on Hadoop using Scikit-Learn" (Python 2.7): the cell that reads the     *)
(* kernel globals n_est and val_mad, computes slope, intercept and best_n  *)
(* and prints n_est[best_n].                                               *)
(* Around it: the notebook from the sweep loop to the cleanup              *)
(* (SpecNotebook) and the three notebooks of the repository as runs of     *)
(* code cells against the Livy session and HDFS (SpecSession).             *)
(*                                                                         *)
(* Python numbers are records [k, s, n, d, un, ud]:                        *)
(*   k  the Python type: "int" (Python 2 int), "float" (Python float),     *)
(*      "float64" (numpy.float64, what mean_absolute_error returns);       *)
(*   s  "fin" for a number, "nan", "inf" or "ninf" for the IEEE specials;  *)
(*   a "fin" number is n/d + (un/ud)*u, u = 2^-53, both fractions reduced. *)
(* A float is an IEEE double: every float operation computes the exact     *)
(* result and rounds it to the nearest double, which is n/d of the exact   *)
(* result plus a multiple of u. Ints are exact (un = 0).                   *)
(***************************************************************************)
EXTENDS Integers, Sequences, FiniteSets, TLC

\* scores is the array np.array(n_est)*slope+intercept-np.array(val_mad) that the
\* cell builds and hands to argmax; it is bound to no name
VARIABLES n_est, val_mad, defined, slope, intercept, scores, best_n, stdout, raised, pc

\* The remote kernel of the notebook around the cell:
\*   cell       the next code cell of the notebook to run;
\*   swept      the number of values of n_est the sweep loop has taken;
\*   val_model  the name val_model of the sweep loop;
\*   mad_model  for every entry of val_mad the n_estimators of the model whose
\*              validation error it is (history of the loop);
\*   gbtr, gbtr_dec  the two regressors; hdfs the models written to HDFS by name;
\*   reads      the pairs <<cell, name>>: the cell has read the kernel name.
VARIABLES cell, swept, val_model, mad_model, gbtr, gbtr_dec, hdfs, reads

\* The three notebooks as runs of code cells, and the services around them:
\*   nb          the notebook that is run; at the position of its next code cell;
\*   magics      sparkmagic is loaded in the local kernel (%reload_ext);
\*   named       the local name session_name is bound;
\*   session     the Livy session: "none", "open" (%spark add), "closed" (%spark cleanup);
\*   cleaned     %spark cleanup has run;
\*   remote_log  one record for every cell with a first line %%spark that has run;
\*   latest      the latest version of each model name on HDFS (earlier runs included);
\*   written     the versions write_model_to_hdfs wrote in this run;
\*   loaded      the local names bound by load_model_from_hdfs, with what they hold;
\*   saved       the local names passed to save(model = ...).
VARIABLES nb, at, magics, named, session, cleaned, remote_log, latest, written, loaded, saved

\* The distributed Keras notebook (remote kernel):
\*   value, z       the local value of determine_z(row) and what the call returned;
\*   kcell          the next cell of the dist-keras part of the notebook;
\*   raw_dataset, dataset, training_set, test_set   the DataFrames: columns and rows;
\*   trained_model  the kernel global trained_model;
\*   kraised        the cells that ended in an error, with the column or name missing;
\*   eval_model, eval_set   the arguments of a call evaluate_accuracy(model, test_set);
\*   evaluated      the model the call hands to ModelPredictor;
\*   score          what the call returns: the accuracy of a model on rows, or an error.
VARIABLES value, z, kcell, raw_dataset, dataset, training_set, test_set, trained_model, kraised,
          eval_model, eval_set, evaluated, score

cellvars == <<n_est, val_mad, defined, slope, intercept, scores, best_n, stdout, raised, pc>>
kernelvars == <<cell, swept, val_model, mad_model, gbtr, gbtr_dec, hdfs, reads>>
sessvars == <<nb, at, magics, named, session, cleaned, remote_log, latest, written, loaded, saved>>
kerasvars == <<value, z, kcell, raw_dataset, dataset, training_set, test_set, trained_model, kraised,
               eval_model, eval_set, evaluated, score>>
vars == <<cellvars, kernelvars, sessvars, kerasvars>>

(***************************************************************************)
(* Bounds of the model.                                                    *)
(***************************************************************************)
\* Spec: valid sweeps (strictly increasing parameters, finite errors).
MaxLen == 4
MaxParam == 4
MaxErr == 3
\* SpecAny: arbitrary sweeps (any length from 0, any order, NaN errors).
AnyLen == 3
AnyParam == 4
AnyErr == 2
\* SpecNotebook: the sweep is range(1, SweepStop), standing for range(1, 201), and
\* mean_absolute_error returns one of the values 0..SweepErr.
SweepStop == 5
SweepErr == 2
\* SpecRounded: sweeps of RoundedLen points with parameters up to RoundedParam whose
\* errors are the doubles nearest to 0, 1/3, 2/3, ..., RoundedThirds/3.
RoundedLen == 3
RoundedParam == 4
RoundedThirds == 6
\* SpecZ: the values sin(X) + sin(Y) are the multiples of 1/ZDen in [-2, 2].
ZDen == 32
\* SpecEval, SpecKeras: the dataset has the rows 1..DataRows.
DataRows == 4
\* SpecSession: each model name has 0..PriorVersions versions on HDFS from earlier runs.
PriorVersions == 1

(***************************************************************************)
(* Exact rational arithmetic on pairs <<n, d>>, d > 0.                     *)
(***************************************************************************)
Abs(x) == IF x < 0 THEN -x ELSE x

RECURSIVE GCD(_, _)
GCD(a, b) == IF b = 0 THEN a ELSE GCD(b, a % b)

QNorm(n, d) ==
    LET g == GCD(Abs(n), d)
    IN  IF n = 0 THEN <<0, 1>> ELSE <<(Abs(n) \div g) * (IF n < 0 THEN -1 ELSE 1), d \div g>>

QAdd(a, b) == QNorm(a[1] * b[2] + b[1] * a[2], a[2] * b[2])
QSub(a, b) == QNorm(a[1] * b[2] - b[1] * a[2], a[2] * b[2])
QMul(a, b) == QNorm(a[1] * b[1], a[2] * b[2])
\* a / b for b # 0
QDiv(a, b) ==
    IF b[1] > 0 THEN QNorm(a[1] * b[2], a[2] * b[1])
                ELSE QNorm(-(a[1] * b[2]), a[2] * (-b[1]))
QLeq(a, b) == a[1] * b[2] <= b[1] * a[2]
QLess(a, b) == a[1] * b[2] < b[1] * a[2]
\* floor(a / b) for integers a, b with b # 0, as Python 2 computes a / b on ints
FloorDiv(a, b) == IF b > 0 THEN a \div b ELSE (-a) \div (-b)

(***************************************************************************)
(* Rounding to the nearest IEEE double, ties to even.                      *)
(* A value is r0 + r1*u with u = 2^-53, r0 and r1 exact rationals; r1*u is *)
(* far below the spacing of the r0 the model meets. The doubles around     *)
(* r0 # 0 are the multiples of g = 2^(E-52), 2^E <= |value| < 2^(E+1);     *)
(* r0/g = q + r/bo with the parity of q and the remainder r computed       *)
(* modulo 2*bo, bo the odd part of r0's denominator.                       *)
(***************************************************************************)
\* floor(log2(a/b)) for a, b > 0
RECURSIVE FloorLog2(_, _)
FloorLog2(a, b) ==
    IF a >= b THEN (IF a < 2 * b THEN 0 ELSE 1 + FloorLog2(a, 2 * b))
              ELSE FloorLog2(2 * a, b) - 1

\* 2^e as a rational, e any integer
Pow2Q(e) == IF e >= 0 THEN <<2 ^ e, 1>> ELSE <<1, 2 ^ (-e)>>

RECURSIVE TwoExp(_)
TwoExp(b) == IF b % 2 = 1 THEN 0 ELSE 1 + TwoExp(b \div 2)

RECURSIVE OddPart(_)
OddPart(b) == IF b % 2 = 1 THEN b ELSE OddPart(b \div 2)

\* 2^e mod m for e >= 0 and m < 2^15, in steps of 2^30
RECURSIVE PowMod2(_, _)
PowMod2(e, m) == IF e <= 30 THEN (2 ^ e) % m ELSE ((2 ^ 30 % m) * PowMod2(e - 30, m)) % m

\* the r1 of the double nearest to r0 + r1*u
RoundErr(r0, r1) ==
    IF r0[1] = 0 THEN r1
    ELSE
    LET a == r0[1]
        b == r0[2]
        E0 == FloorLog2(Abs(a), b)
        \* |r0| is a power of two and the value lies just inside the binade below
        lower == /\ <<Abs(a), b>> = Pow2Q(E0)
                 /\ r1[1] # 0
                 /\ (r1[1] > 0) # (a > 0)
        E == IF lower THEN E0 - 1 ELSE E0
        G == Pow2Q(E + 1)
        bo == OddPart(b)
        t == 52 - E - TwoExp(b)
        r2 == ((a % (2 * bo)) * PowMod2(t, 2 * bo)) % (2 * bo)
        qodd == r2 >= bo
        y == QAdd(<<r2 % bo, bo>>, QDiv(r1, G))
        f == y[1] \div y[2]
        fr == QSub(y, <<f, 1>>)
        k == IF 2 * fr[1] < fr[2] THEN f
             ELSE IF 2 * fr[1] > fr[2] THEN f + 1
             ELSE IF (f % 2 = 1) = qodd THEN f ELSE f + 1
    IN  QAdd(r1, QMul(QSub(<<k, 1>>, y), G))

(***************************************************************************)
(* Python values.                                                          *)
(***************************************************************************)
Kinds == {"int", "float", "float64"}

PyInt(i) == [k |-> "int", s |-> "fin", n |-> i, d |-> 1, un |-> 0, ud |-> 1]
\* the number q, which a double holds exactly
PyNum(kind, q) == [k |-> kind, s |-> "fin", n |-> q[1], d |-> q[2], un |-> 0, ud |-> 1]
PySpecial(kind, sp) == [k |-> kind, s |-> sp, n |-> 0, d |-> 1, un |-> 0, ud |-> 1]
Unbound == [k |-> "unbound", s |-> "none", n |-> 0, d |-> 1, un |-> 0, ud |-> 1]

Q(v) == <<v.n, v.d>>
U(v) == <<v.un, v.ud>>
IsFin(v) == v.s = "fin"
IsNaN(v) == v.s = "nan"
IsZero(v) == v.s = "fin" /\ v.n = 0 /\ v.un = 0
Sign(v) == CASE v.s = "inf" -> 1
             [] v.s = "ninf" -> -1
             [] v.s = "fin" ->
                  (IF v.n > 0 \/ (v.n = 0 /\ v.un > 0) THEN 1
                   ELSE IF v.n < 0 \/ (v.n = 0 /\ v.un < 0) THEN -1 ELSE 0)
             [] OTHER -> 0
Infinity(kind, sign) == PySpecial(kind, IF sign > 0 THEN "inf" ELSE "ninf")

\* the type of the result of a binary arithmetic operation
Coerce(a, b) ==
    IF a.k = "float64" \/ b.k = "float64" THEN "float64"
    ELSE IF a.k = "float" \/ b.k = "float" THEN "float"
    ELSE "int"

\* the result r0 + r1*u of an operation as a value of the type: ints are exact,
\* floats are rounded to the nearest double
Result(kind, r0, r1) ==
    LET e == IF kind = "int" THEN r1 ELSE RoundErr(r0, r1)
    IN  [k |-> kind, s |-> "fin", n |-> r0[1], d |-> r0[2], un |-> e[1], ud |-> e[2]]

Neg(v) == CASE v.s = "fin" -> [v EXCEPT !.n = -v.n, !.un = -v.un]
            [] v.s = "inf" -> PySpecial(v.k, "ninf")
            [] v.s = "ninf" -> PySpecial(v.k, "inf")
            [] OTHER -> v

PyAdd(a, b) ==
    LET kind == Coerce(a, b)
    IN  CASE IsNaN(a) \/ IsNaN(b) -> PySpecial(kind, "nan")
          [] IsFin(a) /\ IsFin(b) -> Result(kind, QAdd(Q(a), Q(b)), QAdd(U(a), U(b)))
          [] IsFin(a) -> PySpecial(kind, b.s)
          [] IsFin(b) -> PySpecial(kind, a.s)
          [] a.s = b.s -> PySpecial(kind, a.s)
          [] OTHER -> PySpecial(kind, "nan")

PySub(a, b) == PyAdd(a, Neg(b))

\* one factor at least is exact in every product of the cell (an element of n_est)
PyMul(a, b) ==
    LET kind == Coerce(a, b)
    IN  CASE IsNaN(a) \/ IsNaN(b) -> PySpecial(kind, "nan")
          [] IsFin(a) /\ IsFin(b) ->
                Result(kind, QMul(Q(a), Q(b)), QAdd(QMul(Q(a), U(b)), QMul(U(a), Q(b))))
          [] IsZero(a) \/ IsZero(b) -> PySpecial(kind, "nan")
          [] OTHER -> Infinity(kind, Sign(a) * Sign(b))

\* a / b raises ZeroDivisionError: Python ints and floats do, numpy.float64 does not
DivRaises(a, b) == IsZero(b) /\ Coerce(a, b) # "float64"

\* a / b of Python 2 (no "from __future__ import division"): floor division on two
\* ints, true division otherwise; numpy.float64 x / 0 is nan, inf or -inf. The
\* divisor of the cell is exact (a difference of two elements of n_est).
PyDiv(a, b) ==
    LET kind == Coerce(a, b)
    IN  CASE IsNaN(a) \/ IsNaN(b) -> PySpecial(kind, "nan")
          [] IsFin(a) /\ IsZero(b) ->
                IF IsZero(a) THEN PySpecial(kind, "nan") ELSE Infinity(kind, Sign(a))
          [] IsFin(a) /\ IsFin(b) ->
                IF kind = "int" THEN PyInt(FloorDiv(a.n, b.n))
                                ELSE Result(kind, QDiv(Q(a), Q(b)), QDiv(U(a), Q(b)))
          [] IsFin(b) -> Infinity(kind, Sign(a) * (IF Sign(b) < 0 THEN -1 ELSE 1))
          [] IsFin(a) -> PyNum(kind, <<0, 1>>)
          [] OTHER -> PySpecial(kind, "nan")

\* a <= b of IEEE / Python: false as soon as one side is nan
PyLeq(a, b) ==
    CASE IsNaN(a) \/ IsNaN(b) -> FALSE
      [] IsFin(a) /\ IsFin(b) ->
            QLess(Q(a), Q(b)) \/ (Q(a) = Q(b) /\ QLeq(U(a), U(b)))
      [] OTHER -> a.s = "ninf" \/ b.s = "inf"

(***************************************************************************)
(* The elbow selection cell, statement by statement.                       *)
(***************************************************************************)
\* slope = (val_mad[-1]-val_mad[0])/(n_est[-1]-n_est[0])
SlopeNum(vmad) == PySub(vmad[Len(vmad)], vmad[1])
SlopeDen(nest) == PySub(PyInt(nest[Len(nest)]), PyInt(nest[1]))
SlopeOf(nest, vmad) == PyDiv(SlopeNum(vmad), SlopeDen(nest))

\* intercept = val_mad[0] - slope*n_est[0]
InterceptOf(nest, vmad, sl) == PySub(vmad[1], PyMul(sl, PyInt(nest[1])))

\* np.array(n_est)*slope+intercept-np.array(val_mad), element by element
Scores(nest, vmad, sl, ic) ==
    [i \in 1..Len(nest) |-> PySub(PyAdd(PyMul(PyInt(nest[i]), sl), ic), vmad[i])]

\* numpy's argmax scan from position i with the maximum so far at position mi
\* (positions counted from 1): a later element replaces the maximum only when it is
\* not <= it, and the scan stops at the first nan.
RECURSIVE ArgMaxScan(_, _, _)
ArgMaxScan(a, i, mi) ==
    IF i > Len(a) THEN mi
    ELSE IF ~PyLeq(a[i], a[mi])
         THEN (IF IsNaN(a[i]) THEN i ELSE ArgMaxScan(a, i + 1, i))
         ELSE ArgMaxScan(a, i + 1, mi)

\* mutant: an element equal to the maximum so far replaces it (the last maximum wins)
RECURSIVE ArgMaxScanLast(_, _, _)
ArgMaxScanLast(a, i, mi) ==
    IF i > Len(a) THEN mi
    ELSE IF PyLeq(a[mi], a[i]) \/ IsNaN(a[i])
         THEN (IF IsNaN(a[i]) THEN i ELSE ArgMaxScanLast(a, i + 1, i))
         ELSE ArgMaxScanLast(a, i + 1, mi)
ArgMaxTakesLast(a) == IF IsNaN(a[1]) THEN 0 ELSE ArgMaxScanLast(a, 2, 1) - 1

\* ndarray.argmax(): the index, counted from 0, of the first maximum; a nan counts
\* as the maximum.
ArgMax(a) == IF IsNaN(a[1]) THEN 0 ELSE ArgMaxScan(a, 2, 1) - 1

\* mutant: the index itself instead of the element at the index
RecommendedIndex(nest, bn) == bn

\* n_est[best_n], the value the cell prints and the later cells pass as n_estimators
Recommended(nest, bn) == nest[bn + 1]

\* mutant: val_mad.pop() for val_mad[-1]; the last error leaves the list and the
\* arrays of the score no longer have one shape
ElbowCellPops ==
    /\ pc' = "done"
    /\ stdout' = <<>>
    /\ UNCHANGED <<n_est, defined, slope, intercept, scores, best_n>>
    /\ IF Len(val_mad) = 0 \/ Len(n_est) = 0
       THEN raised' = "IndexError" /\ val_mad' = val_mad
       ELSE raised' = "ValueError" /\ val_mad' = SubSeq(val_mad, 1, Len(val_mad) - 1)

\* The whole cell. val_mad[-1] raises IndexError on an empty list; the division
\* raises ZeroDivisionError for Python numbers; an exception ends the cell before
\* any name is bound.
ElbowCell ==
    /\ pc' = "done"
    /\ UNCHANGED <<n_est, val_mad>>
    /\ IF Len(val_mad) = 0 \/ Len(n_est) = 0
       THEN /\ raised' = "IndexError"
            /\ stdout' = <<>>
            /\ UNCHANGED <<defined, slope, intercept, scores, best_n>>
       ELSE IF DivRaises(SlopeNum(val_mad), SlopeDen(n_est))
       THEN /\ raised' = "ZeroDivisionError"
            /\ stdout' = <<>>
            /\ UNCHANGED <<defined, slope, intercept, scores, best_n>>
       ELSE /\ slope' = SlopeOf(n_est, val_mad)
            /\ intercept' = InterceptOf(n_est, val_mad, slope')
            /\ scores' = Scores(n_est, val_mad, slope', intercept')
            /\ best_n' = ArgMax(scores')
            /\ defined' = defined \cup {"slope", "intercept", "best_n"}
            /\ stdout' = <<Recommended(n_est, best_n')>>
            /\ raised' = "none"

(***************************************************************************)
(* Inputs of the cell.                                                     *)
(***************************************************************************)
\* sequences of the given length over 1..maxp, strictly increasing
IncSeqs(len, maxp) ==
    {s \in [1..len -> 1..maxp] : \A i \in 1..(len - 1) : s[i] < s[i + 1]}

\* error lists of one Python type with the values 0..maxe
ErrSeqs(len, kind, maxe) == [1..len -> {PyNum(kind, <<c, 1>>) : c \in 0..maxe}]

\* error lists of floats that may hold nan
NaNErrSeqs(len, kind, maxe) ==
    [1..len -> {PyNum(kind, <<c, 1>>) : c \in 0..maxe} \cup {PySpecial(kind, "nan")}]

\* the worked example of the specification, in each Python type
ExampleParams == <<1, 2, 3, 4, 5>>
ExampleErrors(kind) == [i \in 1..5 |-> PyNum(kind, <<(<<10, 8, 3, 7, 9>>)[i], 1>>)]

\* what a call of determine_z returns: a class, or None; NotCalled before the call
Returns(c) == [called |-> TRUE, none |-> FALSE, class |-> c]
ReturnsNone == [called |-> TRUE, none |-> TRUE, class |-> 0]
NotCalled == [called |-> FALSE, none |-> FALSE, class |-> 0]

\* the result of a call of evaluate_accuracy: the accuracy of the model on the rows
\* (evaluator.evaluate), or the error that ended the call
Accuracy(m, rows) == [state |-> "returned", model |-> m, rows |-> rows, error |-> "none"]
EvalRaises(err) == [state |-> "raised", model |-> "unbound", rows |-> {}, error |-> err]
NotEvaluated == [state |-> "pending", model |-> "unbound", rows |-> {}, error |-> "none"]

\* a DataFrame name that is not bound
NoFrame == [bound |-> FALSE, cols |-> {}, rows |-> {}]

\* the remote kernel of the Keras notebook before any of its cells has run
KerasIdle ==
    /\ value = <<0, 1>>
    /\ z = NotCalled
    /\ kcell = "assemble"
    /\ raw_dataset = NoFrame
    /\ dataset = NoFrame
    /\ training_set = NoFrame
    /\ test_set = NoFrame
    /\ trained_model = "unbound"
    /\ kraised = {}
    /\ eval_model = "unbound"
    /\ eval_set = NoFrame
    /\ evaluated = "unbound"
    /\ score = NotEvaluated

ModelNames == {"gbtr_jun", "gbtr_dec", "ml_cars_model"}

\* the session while the cells of the remote kernel run: sparkmagic is loaded,
\* session_name is bound and the session is open; the run of cells is not followed
SessionIdle ==
    /\ nb = "weather"
    /\ at = 0
    /\ magics = TRUE
    /\ named = TRUE
    /\ session = "open"
    /\ cleaned = FALSE
    /\ remote_log = {}
    /\ latest = [name \in ModelNames |-> 0]
    /\ written = {}
    /\ loaded = {}
    /\ saved = {}

\* the kernel names outside the elbow selection cell, when only that cell is run
KernelIdle ==
    /\ cell = "elbow"
    /\ swept = 0
    /\ val_model = [n_estimators |-> 0, fitted |-> "unbound"]
    /\ mad_model = <<>>
    /\ gbtr = [n_estimators |-> 0, fitted |-> "unbound"]
    /\ gbtr_dec = [n_estimators |-> 0, fitted |-> "unbound"]
    /\ hdfs = [name \in {"gbtr_jun", "gbtr_dec"} |-> [n_estimators |-> 0, fitted |-> "unbound"]]
    /\ reads = {}

Fresh ==
    /\ defined = {}
    /\ slope = Unbound
    /\ intercept = Unbound
    /\ scores = <<>>
    /\ best_n = 0
    /\ stdout = <<>>
    /\ raised = "none"
    /\ pc = "ready"

\* valid sweeps: n >= 2, strictly increasing parameters, finite errors
Init ==
    /\ Fresh
    /\ KernelIdle
    /\ SessionIdle
    /\ KerasIdle
    /\ \/ \E len \in 2..MaxLen, kind \in Kinds :
            /\ n_est \in IncSeqs(len, MaxParam)
            /\ val_mad \in ErrSeqs(len, kind, MaxErr)
       \/ \E kind \in Kinds :
            /\ n_est = ExampleParams
            /\ val_mad = ExampleErrors(kind)

\* any sweep: any length from 0, parameters in any order, nan among float errors
InitAny ==
    /\ Fresh
    /\ KernelIdle
    /\ SessionIdle
    /\ KerasIdle
    /\ \E len \in 0..AnyLen, kind \in Kinds :
            /\ n_est \in [1..len -> 1..AnyParam]
            /\ val_mad \in (IF kind = "int" THEN ErrSeqs(len, kind, AnyErr)
                                            ELSE NaNErrSeqs(len, kind, AnyErr))

\* the double nearest to c/3, the value a float error list holds for it
Third(kind, c) == Result(kind, QNorm(c, 3), <<0, 1>>)

\* valid sweeps of floats that are not small integers: the errors are thirds, as
\* doubles hold them
InitRounded ==
    /\ Fresh
    /\ KernelIdle
    /\ SessionIdle
    /\ KerasIdle
    /\ \E len \in 2..RoundedLen, kind \in {"float", "float64"} :
            /\ n_est \in IncSeqs(len, RoundedParam)
            /\ val_mad \in [1..len -> {Third(kind, c) : c \in 0..RoundedThirds}]

Next == ElbowCell /\ UNCHANGED kernelvars /\ UNCHANGED sessvars /\ UNCHANGED kerasvars

Spec == Init /\ [][Next]_vars

SpecAny == InitAny /\ [][Next]_vars

SpecRounded == InitRounded /\ [][Next]_vars

(***************************************************************************)
(* The notebook from the sweep to the end, cell by cell, top to bottom.    *)
(***************************************************************************)
\* the code cells from the sweep on, in the order of the notebook
CellOrder ==
    <<"sweep", "elbow", "fit", "score", "refit", "write", "load", "pull_x", "pull_y",
      "import_save", "save_jun", "save_dec", "cleanup", "end">>
\* the cells that run in the remote session (first line %%spark)
RemoteCells == {"sweep", "elbow", "fit", "score", "refit", "write", "pull_x", "pull_y"}
\* the cell below c
Below(c) == CellOrder[(CHOOSE j \in 1..Len(CellOrder) : CellOrder[j] = c) + 1]

\* the three splits made by the two train_test_split calls above the sweep
TrainSplit == {"x_train", "y_train"}
ValSplit == {"x_val", "y_val"}
TestSplit == {"x_test", "y_test"}

\* mutant: the sweep scores its models on the test split
ReadsTestInSweep(c) ==
    CASE c = "sweep" -> {"n_est", "val_mad"} \cup TrainSplit \cup TestSplit
      [] c = "elbow" -> {"n_est", "val_mad"}
      [] c = "fit" -> {"n_est", "best_n"} \cup TrainSplit
      [] c = "score" -> {"gbtr"} \cup TestSplit
      [] c = "refit" -> {"n_est", "best_n", "gbtr", "x", "y"}
      [] OTHER -> {}
\* the kernel names of the sweep, the selection and the data that a cell reads
Reads(c) ==
    CASE c = "sweep" -> {"n_est", "val_mad"} \cup TrainSplit \cup ValSplit
      [] c = "elbow" -> {"n_est", "val_mad"}
      [] c = "fit" -> {"n_est", "best_n"} \cup TrainSplit
      [] c = "score" -> {"gbtr"} \cup TestSplit
      [] c = "refit" -> {"n_est", "best_n", "gbtr", "x", "y"}
      [] OTHER -> {}
Read(c) == reads' = reads \cup {<<c, name>> : name \in Reads(c)}

NoModel == [n_estimators |-> 0, fitted |-> "unbound"]

\* mutant: range(1, 2), a sweep of the one value 1
SweepRangeOne == <<1>>
\* list(range(1,201))
SweepRange == [j \in 1..(SweepStop - 1) |-> j]

\* mutant: GradientBoostingRegressor() with the default n_estimators
ValModelDefault(n) == [n_estimators |-> 100, fitted |-> "no"]
\* GradientBoostingRegressor(n_estimators=n)
ValModel(n) == [n_estimators |-> n, fitted |-> "no"]

\* what mean_absolute_error(y_val, val_pred) can return: a finite numpy.float64 >= 0
MadValues == {PyNum("float64", <<c, 1>>) : c \in 0..SweepErr}

\* mutant: the cell without "val_mad = list()", the loop appends to the old list
SweepStartKeeps ==
    /\ cell = "sweep" /\ pc # "loop"
    /\ n_est' = SweepRange
    /\ swept' = 0
    /\ pc' = "loop"
    /\ Read("sweep")
    /\ UNCHANGED <<val_mad, defined, slope, intercept, scores, best_n, stdout, raised>>
    /\ UNCHANGED <<cell, val_model, mad_model, gbtr, gbtr_dec, hdfs>>
    /\ UNCHANGED sessvars
    /\ UNCHANGED kerasvars
\* n_est = list(range(1,201)); val_mad = list(); the loop is entered at the first
\* element of n_est
SweepStart ==
    /\ cell = "sweep" /\ pc # "loop"
    /\ n_est' = SweepRange
    /\ val_mad' = <<>>
    /\ mad_model' = <<>>
    /\ swept' = 0
    /\ pc' = "loop"
    /\ Read("sweep")
    /\ UNCHANGED <<defined, slope, intercept, scores, best_n, stdout, raised>>
    /\ UNCHANGED <<cell, val_model, gbtr, gbtr_dec, hdfs>>
    /\ UNCHANGED sessvars
    /\ UNCHANGED kerasvars

\* one iteration of "for n in tqdm(n_est)": the next value of n_est, a model
\* with that n_estimators, fitted and scored, its error appended to val_mad
SweepIteration ==
    /\ cell = "sweep" /\ pc = "loop" /\ swept < Len(n_est)
    /\ swept' = swept + 1
    /\ val_model' = [ValModel(n_est[swept + 1]) EXCEPT !.fitted = "train"]
    /\ \E err \in MadValues : val_mad' = Append(val_mad, err)
    /\ mad_model' = Append(mad_model, val_model'.n_estimators)
    /\ UNCHANGED <<n_est, defined, slope, intercept, scores, best_n, stdout, raised, pc>>
    /\ UNCHANGED <<cell, gbtr, gbtr_dec, hdfs, reads>>
    /\ UNCHANGED sessvars
    /\ UNCHANGED kerasvars

\* mutant: a break in the loop body, the loop may end after any iteration
SweepEndBreaks ==
    /\ cell = "sweep" /\ pc = "loop" /\ swept >= 1
    /\ cell' = Below(cell)
    /\ pc' = "ready"
    /\ UNCHANGED <<n_est, val_mad, defined, slope, intercept, scores, best_n, stdout, raised>>
    /\ UNCHANGED <<swept, val_model, mad_model, gbtr, gbtr_dec, hdfs, reads>>
    /\ UNCHANGED sessvars
    /\ UNCHANGED kerasvars
\* n_est is exhausted: the loop and the cell end
SweepEnd ==
    /\ cell = "sweep" /\ pc = "loop" /\ swept >= Len(n_est)
    /\ cell' = Below(cell)
    /\ pc' = "ready"
    /\ UNCHANGED <<n_est, val_mad, defined, slope, intercept, scores, best_n, stdout, raised>>
    /\ UNCHANGED <<swept, val_model, mad_model, gbtr, gbtr_dec, hdfs, reads>>
    /\ UNCHANGED sessvars
    /\ UNCHANGED kerasvars

\* the elbow selection cell in its place in the notebook
ElbowStep ==
    /\ cell = "elbow"
    /\ ElbowCell
    /\ cell' = Below(cell)
    /\ Read("elbow")
    /\ UNCHANGED <<swept, val_model, mad_model, gbtr, gbtr_dec, hdfs>>
    /\ UNCHANGED sessvars
    /\ UNCHANGED kerasvars

\* mutant: n_estimators=best_n, the index instead of the value
RegressorForIndex(nest, bn) == [n_estimators |-> bn, fitted |-> "no"]
\* GradientBoostingRegressor(n_estimators=n_est[best_n])
RegressorFor(nest, bn) == [n_estimators |-> nest[bn + 1], fitted |-> "no"]

\* gbtr = GradientBoostingRegressor(n_estimators=n_est[best_n]); gbtr.fit(x_train,y_train)
FitCell ==
    /\ cell = "fit"
    /\ gbtr' = [RegressorFor(n_est, best_n) EXCEPT !.fitted = "train"]
    /\ cell' = Below(cell)
    /\ Read("fit")
    /\ UNCHANGED cellvars
    /\ UNCHANGED <<swept, val_model, mad_model, gbtr_dec, hdfs>>
    /\ UNCHANGED sessvars
    /\ UNCHANGED kerasvars

\* mutant: the error on the test set is appended to val_mad as well
ScoreCellAppends ==
    /\ cell = "score"
    /\ cell' = Below(cell)
    /\ \E err \in MadValues : val_mad' = Append(val_mad, err)
    /\ reads' = reads \cup {<<"score", "val_mad">>}
    /\ UNCHANGED <<n_est, defined, slope, intercept, scores, best_n, stdout, raised, pc>>
    /\ UNCHANGED <<swept, val_model, mad_model, gbtr, gbtr_dec, hdfs>>
    /\ UNCHANGED sessvars
    /\ UNCHANGED kerasvars
\* y_pred = gbtr.predict(x_test); the error and the R^2 value on the test set are
\* printed in the output of this cell
ScoreCell ==
    /\ cell = "score"
    /\ cell' = Below(cell)
    /\ Read("score")
    /\ UNCHANGED cellvars
    /\ UNCHANGED <<swept, val_model, mad_model, gbtr, gbtr_dec, hdfs>>
    /\ UNCHANGED sessvars
    /\ UNCHANGED kerasvars

\* gbtr.fit(x,y['21-Jun']); gbtr_dec = GradientBoostingRegressor(...); gbtr_dec.fit(x,y['21-Dec'])
RefitCell ==
    /\ cell = "refit"
    /\ gbtr' = [gbtr EXCEPT !.fitted = "all_jun"]
    /\ gbtr_dec' = [RegressorFor(n_est, best_n) EXCEPT !.fitted = "all_dec"]
    /\ cell' = Below(cell)
    /\ Read("refit")
    /\ UNCHANGED cellvars
    /\ UNCHANGED <<swept, val_model, mad_model, hdfs>>
    /\ UNCHANGED sessvars
    /\ UNCHANGED kerasvars

\* write_model_to_hdfs(model=gbtr, model_name="gbtr_jun"), then gbtr_dec as "gbtr_dec"
WriteCell ==
    /\ cell = "write"
    /\ hdfs' = [hdfs EXCEPT !["gbtr_jun"] = gbtr, !["gbtr_dec"] = gbtr_dec]
    /\ cell' = Below(cell)
    /\ Read("write")
    /\ UNCHANGED cellvars
    /\ UNCHANGED <<swept, val_model, mad_model, gbtr, gbtr_dec>>
    /\ UNCHANGED sessvars
    /\ UNCHANGED kerasvars

\* the cells below: the local cells (load, import, save), the pulls of one row
\* (x = sdf_x, y = sdf_y in the remote kernel) and the cleanup touch none of the
\* names above
LaterCell ==
    /\ cell \in {"load", "pull_x", "pull_y", "import_save", "save_jun", "save_dec", "cleanup"}
    /\ cell' = Below(cell)
    /\ Read(cell)
    /\ UNCHANGED cellvars
    /\ UNCHANGED <<swept, val_model, mad_model, gbtr, gbtr_dec, hdfs>>
    /\ UNCHANGED sessvars
    /\ UNCHANGED kerasvars

\* the remote kernel before the sweep cell
InitNotebook ==
    /\ Fresh
    /\ SessionIdle
    /\ KerasIdle
    /\ n_est = <<>>
    /\ val_mad = <<>>
    /\ cell = "sweep"
    /\ swept = 0
    /\ val_model = NoModel
    /\ mad_model = <<>>
    /\ gbtr = NoModel
    /\ gbtr_dec = NoModel
    /\ hdfs = [name \in {"gbtr_jun", "gbtr_dec"} |-> NoModel]
    /\ reads = {}

NextNotebook ==
    \/ SweepStart
    \/ SweepIteration
    \/ SweepEnd
    \/ ElbowStep
    \/ FitCell
    \/ ScoreCell
    \/ RefitCell
    \/ WriteCell
    \/ LaterCell

SpecNotebook == InitNotebook /\ [][NextNotebook]_vars

\* The user runs a cell above again: the sweep cell, or the selection cell once the
\* sweep is complete. No cell is running (the kernel runs one cell at a time).
RunAgain ==
    /\ cell \in {"elbow", "fit"}
    /\ \E c \in {"sweep", "elbow"} : c # cell /\ cell' = c
    /\ UNCHANGED cellvars
    /\ UNCHANGED <<swept, val_model, mad_model, gbtr, gbtr_dec, hdfs, reads>>
    /\ UNCHANGED sessvars
    /\ UNCHANGED kerasvars

NextRerun ==
    \/ SweepStart
    \/ SweepIteration
    \/ SweepEnd
    \/ ElbowStep
    \/ RunAgain

\* the sweep cell and the selection cell run in the notebook's order and re-run
SpecRerun == InitNotebook /\ [][NextRerun]_vars

\* the remote kernel runs the sweep cell statement by statement to its end
SpecNotebookFair == SpecNotebook /\ WF_vars(SweepStart \/ SweepIteration \/ SweepEnd)

(***************************************************************************)
(* The three notebooks as runs of code cells, top to bottom, on a fresh    *)
(* local kernel: which cells load sparkmagic, open, use and close the Livy *)
(* session, and which write, load and save models.                         *)
(***************************************************************************)
\* a code cell: the line of the notebook file where its source starts, its kind
\* and the model or local names it mentions
Cell(line, kind) == [line |-> line, kind |-> kind, names |-> <<>>]
CellWith(line, kind, names) == [line |-> line, kind |-> kind, names |-> names]
Cells(kind, lines) == [j \in 1..Len(lines) |-> Cell(lines[j], kind)]

\* mutant: loc_gbtr_dec is loaded under a name this notebook does not write
WeatherLoadsOther == <<<<"loc_gbtr_jun", "gbtr_jun">>, <<"loc_gbtr_dec", "ml_cars_model">>>>
\* loc_gbtr_jun = load_model_from_hdfs(..., model_name="gbtr_jun"), loc_gbtr_dec likewise
WeatherLoads == <<<<"loc_gbtr_jun", "gbtr_jun">>, <<"loc_gbtr_dec", "gbtr_dec">>>>

\* Modeling Weather Geographies on Hadoop using Scikit-Learn (Python 2.7)
WeatherCells ==
    Cells("local", <<83, 120, 143>>)
    \o <<Cell(169, "reload_ext"), Cell(230, "add")>>
    \o Cells("remote", <<264, 289, 337, 371, 399, 424, 449, 474, 513, 554, 578, 619>>)
    \o <<CellWith(671, "write", <<"gbtr_jun", "gbtr_dec">>),
         CellWith(708, "load", WeatherLoads)>>
    \o Cells("remote", <<740, 754>>)
    \o <<Cell(778, "local"),
         CellWith(822, "save", <<"loc_gbtr_jun">>),
         CellWith(852, "save", <<"loc_gbtr_dec">>),
         Cell(883, "cleanup"),
         Cell(918, "local")>>

\* Train and predict on Hadoop with Python machine learning (Python 3.5)
Py35Cells ==
    Cells("local", <<68, 117, 137, 163>>)
    \o <<Cell(174, "remote"), Cell(195, "reload_ext"), Cell(253, "add"),
         Cell(284, "remote"), Cell(312, "info"), Cell(332, "remote"), Cell(400, "local")>>
    \o Cells("remote", <<456, 499, 531, 558, 572, 605>>)
    \o <<CellWith(654, "write", <<"ml_cars_model">>),
         CellWith(686, "load", <<<<"ml_cars", "ml_cars_model">>>>),
         Cell(714, "remote"),
         Cell(735, "local"),
         CellWith(777, "save", <<"ml_cars">>),
         Cell(801, "cleanup")>>

\* Distributed Keras on Remote Spark (Python 2.7)
KerasCells ==
    <<Cell(50, "local"), Cell(74, "local"), Cell(98, "reload_ext"), Cell(139, "add"),
      Cell(170, "info"), Cell(217, "remote"), Cell(286, "local"), Cell(318, "local")>>
    \o Cells("remote", <<340, 371, 461, 484, 521, 546, 612, 648, 679, 725, 765, 781, 823>>)
    \o <<Cell(837, "cleanup")>>

Notebooks == {"weather", "py35", "keras"}
CellsOf(book) == CASE book = "weather" -> WeatherCells
                   [] book = "py35" -> Py35Cells
                   [] book = "keras" -> KerasCells

AtEnd == at > Len(CellsOf(nb))
\* the cell to run; Here(kind): it is of that kind
Current == CellsOf(nb)[at]
Here(kinds) == ~AtEnd /\ Current.kind \in kinds
\* a cell or line magic of sparkmagic does its work only when the extension is
\* loaded (a UsageError otherwise), and a remote cell only in an open session
Usable == magics /\ named /\ session = "open"

RangeOf(seq) == {seq[j] : j \in 1..Len(seq)}

\* mutant: the cleanup leaves the session as it is
AfterCleanupKept(s) == s
\* %spark cleanup deletes the session
AfterCleanup(s) == IF s = "open" THEN "closed" ELSE s

\* a cell that runs in the local kernel and touches no session, and %spark info
LocalCell ==
    /\ Here({"local", "info"})
    /\ at' = at + 1
    /\ UNCHANGED <<nb, magics, named, session, cleaned, remote_log, latest, written, loaded, saved>>
    /\ UNCHANGED <<cellvars, kernelvars, kerasvars>>

\* %reload_ext sparkmagic.magics
ReloadExtCell ==
    /\ Here({"reload_ext"})
    /\ at' = at + 1
    /\ magics' = TRUE
    /\ UNCHANGED <<nb, named, session, cleaned, remote_log, latest, written, loaded, saved>>
    /\ UNCHANGED <<cellvars, kernelvars, kerasvars>>

\* session_name = '...'; %spark add -s $session_name -l python -k -u $livy_endpoint
AddCell ==
    /\ Here({"add"})
    /\ at' = at + 1
    /\ named' = TRUE
    /\ session' = IF magics THEN "open" ELSE session
    /\ UNCHANGED <<nb, magics, cleaned, remote_log, latest, written, loaded, saved>>
    /\ UNCHANGED <<cellvars, kernelvars, kerasvars>>

\* the record of a %%spark cell that runs
Attempt == [line |-> Current.line, magics |-> magics, named |-> named,
            session |-> session, cleaned |-> cleaned]

\* a %%spark cell (with -o: a pull of one row) that writes no model
RemoteCell ==
    /\ Here({"remote"})
    /\ at' = at + 1
    /\ remote_log' = remote_log \cup {Attempt}
    /\ UNCHANGED <<nb, magics, named, session, cleaned, latest, written, loaded, saved>>
    /\ UNCHANGED <<cellvars, kernelvars, kerasvars>>

\* a %%spark cell with write_model_to_hdfs(model=..., model_name=N) for each N of the
\* cell: the model becomes the next version of N
WriteModelCell ==
    /\ Here({"write"})
    /\ at' = at + 1
    /\ remote_log' = remote_log \cup {Attempt}
    /\ IF Usable
       THEN /\ latest' = [name \in ModelNames |->
                            IF name \in RangeOf(Current.names) THEN latest[name] + 1
                                                               ELSE latest[name]]
            /\ written' = written \cup
                  {[name |-> name, version |-> latest[name] + 1, line |-> Current.line,
                    session |-> session] : name \in RangeOf(Current.names)}
       ELSE UNCHANGED <<latest, written>>
    /\ UNCHANGED <<nb, magics, named, session, cleaned, loaded, saved>>
    /\ UNCHANGED <<cellvars, kernelvars, kerasvars>>

\* var = load_model_from_hdfs(webhdfs_endpoint, model_name=N) for each pair of the
\* cell: the latest version of N, when there is one
LoadCell ==
    /\ Here({"load"})
    /\ at' = at + 1
    /\ loaded' = loaded \cup
          {[var |-> pair[1], name |-> pair[2], version |-> latest[pair[2]],
            line |-> Current.line] : pair \in {q \in RangeOf(Current.names) : latest[q[2]] > 0}}
    /\ UNCHANGED <<nb, magics, named, session, cleaned, remote_log, latest, written, saved>>
    /\ UNCHANGED <<cellvars, kernelvars, kerasvars>>

\* save(model = var, ...): a NameError when var is not bound
SaveCell ==
    /\ Here({"save"})
    /\ at' = at + 1
    /\ saved' = saved \cup
          {[var |-> var, line |-> Current.line] :
              var \in {v \in RangeOf(Current.names) : \E l \in loaded : l.var = v}}
    /\ UNCHANGED <<nb, magics, named, session, cleaned, remote_log, latest, written, loaded>>
    /\ UNCHANGED <<cellvars, kernelvars, kerasvars>>

\* %spark cleanup
CleanupCell ==
    /\ Here({"cleanup"})
    /\ at' = at + 1
    /\ IF magics
       THEN session' = AfterCleanup(session) /\ cleaned' = TRUE
       ELSE UNCHANGED <<session, cleaned>>
    /\ UNCHANGED <<nb, magics, named, remote_log, latest, written, loaded, saved>>
    /\ UNCHANGED <<cellvars, kernelvars, kerasvars>>

\* a fresh local kernel at the first cell of one of the notebooks; HDFS holds what
\* earlier runs have written
InitSession ==
    /\ nb \in Notebooks
    /\ at = 1
    /\ magics = FALSE
    /\ named = FALSE
    /\ session = "none"
    /\ cleaned = FALSE
    /\ remote_log = {}
    /\ latest \in [ModelNames -> 0..PriorVersions]
    /\ written = {}
    /\ loaded = {}
    /\ saved = {}
    /\ Fresh
    /\ n_est = <<>>
    /\ val_mad = <<>>
    /\ KernelIdle
    /\ KerasIdle

NextSession ==
    \/ LocalCell
    \/ ReloadExtCell
    \/ AddCell
    \/ RemoteCell
    \/ WriteModelCell
    \/ LoadCell
    \/ SaveCell
    \/ CleanupCell

SpecSession == InitSession /\ [][NextSession]_vars

\* the cells are run one after the other to the last
SpecSessionFair == SpecSession /\ WF_vars(NextSession)

(***************************************************************************)
(* The Keras notebook: determine_z, the function that labels a row of the  *)
(* sample job's DataFrame.                                                 *)
(***************************************************************************)
\* the remote kernel and the session outside the Keras notebook's functions
ElsewhereIdle ==
    /\ Fresh
    /\ n_est = <<>>
    /\ val_mad = <<>>
    /\ KernelIdle
    /\ SessionIdle

\* mutant: "value > -1.0" in the second test, the value -1.0 passes no test
DetermineZStrict(v) ==
    IF QLess(v, <<-1, 1>>) THEN Returns(0)
    ELSE IF QLess(<<-1, 1>>, v) /\ QLess(v, <<0, 1>>) THEN Returns(1)
    ELSE IF QLeq(<<0, 1>>, v) /\ QLess(v, <<1, 1>>) THEN Returns(2)
    ELSE IF QLeq(<<1, 1>>, v) THEN Returns(3)
    ELSE ReturnsNone
\* the four tests of determine_z on value, in their order; a Python function that
\* reaches its end returns None
DetermineZ(v) ==
    IF QLess(v, <<-1, 1>>) THEN Returns(0)
    ELSE IF QLeq(<<-1, 1>>, v) /\ QLess(v, <<0, 1>>) THEN Returns(1)
    ELSE IF QLeq(<<0, 1>>, v) /\ QLess(v, <<1, 1>>) THEN Returns(2)
    ELSE IF QLeq(<<1, 1>>, v) THEN Returns(3)
    ELSE ReturnsNone

\* value = float(np.sin(row['X']) + np.sin(row['Y'])): a finite double in [-2, 2]
ZValues == {QNorm(c, ZDen) : c \in (-2 * ZDen)..(2 * ZDen)}

\* df.apply(determine_z, axis=1) on one row
DetermineZRow ==
    /\ z = NotCalled
    /\ z' = DetermineZ(value)
    /\ UNCHANGED <<value, kcell, raw_dataset, dataset, training_set, test_set, trained_model, kraised,
                   eval_model, eval_set, evaluated, score>>
    /\ UNCHANGED <<cellvars, kernelvars, sessvars>>

InitZ ==
    /\ ElsewhereIdle
    /\ value \in ZValues
    /\ z = NotCalled
    /\ kcell = "assemble"
    /\ raw_dataset = NoFrame
    /\ dataset = NoFrame
    /\ training_set = NoFrame
    /\ test_set = NoFrame
    /\ trained_model = "unbound"
    /\ kraised = {}
    /\ eval_model = "unbound"
    /\ eval_set = NoFrame
    /\ evaluated = "unbound"
    /\ score = NotEvaluated

NextZ == DetermineZRow

SpecZ == InitZ /\ [][NextZ]_vars

(***************************************************************************)
(* The Keras notebook: evaluate_accuracy(model, test_set).                 *)
(***************************************************************************)
\* the Keras models of the kernel: model (the Sequential of the notebook) and what
\* the two trainers return
KerasModels == {"model", "single_trained", "aeasgd_trained"}

\* the columns the function selects from its test_set argument
EvalColumns == {"features_normalized", "label_index", "label"}

\* evaluate_accuracy(model, test_set) in a kernel whose global trained_model is tm:
\* select the three columns, predict with ModelPredictor(keras_model=trained_model),
\* index the predictions and return evaluator.evaluate(test_set)
EvaluateAccuracy(model, tset, tm) ==
    IF ~(EvalColumns \subseteq tset.cols)
    THEN [evaluated |-> "unbound", score |-> EvalRaises("AnalysisException")]
    ELSE IF tm = "unbound"
    THEN [evaluated |-> "unbound", score |-> EvalRaises("NameError")]
    ELSE [evaluated |-> tm, score |-> Accuracy(tm, tset.rows)]

\* a call evaluate_accuracy(eval_model, eval_set)
EvaluateAccuracyCall ==
    /\ score = NotEvaluated
    /\ evaluated' = EvaluateAccuracy(eval_model, eval_set, trained_model).evaluated
    /\ score' = EvaluateAccuracy(eval_model, eval_set, trained_model).score
    /\ UNCHANGED <<value, z, kcell, raw_dataset, dataset, training_set, test_set, trained_model, kraised,
                   eval_model, eval_set>>
    /\ UNCHANGED <<cellvars, kernelvars, sessvars>>

\* DataFrames to evaluate on: some rows, with the columns of the function or without
\* the normalized features
EvalFrames ==
    {[bound |-> TRUE, cols |-> c, rows |-> r] :
        c \in {EvalColumns \cup {"features"}, {"features", "label_index", "Label"}},
        r \in SUBSET (1..DataRows)}

\* the arguments of a call and the global trained_model at the call
InitEval ==
    /\ ElsewhereIdle
    /\ value = <<0, 1>>
    /\ z = NotCalled
    /\ kcell = "assemble"
    /\ raw_dataset = NoFrame
    /\ dataset = NoFrame
    /\ training_set = NoFrame
    /\ test_set = NoFrame
    /\ trained_model \in KerasModels \cup {"unbound"}
    /\ kraised = {}
    /\ eval_model \in KerasModels
    /\ eval_set \in EvalFrames
    /\ evaluated = "unbound"
    /\ score = NotEvaluated

NextEval == EvaluateAccuracyCall

SpecEval == InitEval /\ [][NextEval]_vars

(***************************************************************************)
(* The Keras notebook: the cells from the feature vector to the trainers,  *)
(* executed top to bottom.                                                 *)
(***************************************************************************)
\* the columns of the csv file the notebook reads (a few of its DER_/PRI_ columns)
RawColumns == {"EventId", "DER_mass_MMC", "PRI_jet_num", "Weight", "Label"}

\* the columns both trainers are configured to read: features_col and label_col
TrainerColumns == {"features_normalized", "label"}

\* the cells in their order in the notebook
KerasOrder == <<"assemble", "scale_index", "split", "train_single", "train_aeasgd", "config">>

\* the cell after cell c
KerasBelow(c) == KerasOrder[(CHOOSE i \in 1..Len(KerasOrder) : KerasOrder[i] = c) + 1]

\* dataset = vector_assembler.transform(raw_dataset): the column "features" is appended
AssembleCell ==
    /\ kcell = "assemble"
    /\ dataset' = [raw_dataset EXCEPT !.cols = @ \cup {"features"}]
    /\ kcell' = KerasBelow(kcell)
    /\ UNCHANGED <<value, z, raw_dataset, training_set, test_set, trained_model, kraised,
                   eval_model, eval_set, evaluated, score>>
    /\ UNCHANGED <<cellvars, kernelvars, sessvars>>

\* the scaler is fitted and its transform is a comment; the label indexer is fitted and
\* applied: the column "label_index" is appended
ScaleIndexCell ==
    /\ kcell = "scale_index"
    /\ dataset' = [dataset EXCEPT !.cols = @ \cup {"label_index"}]
    /\ kcell' = KerasBelow(kcell)
    /\ UNCHANGED <<value, z, raw_dataset, training_set, test_set, trained_model, kraised,
                   eval_model, eval_set, evaluated, score>>
    /\ UNCHANGED <<cellvars, kernelvars, sessvars>>

\* shuffle and randomSplit([0.6, 0.4]): each row goes to one of the two sets
SplitCell ==
    /\ kcell = "split"
    /\ \E rows \in SUBSET dataset.rows :
          /\ training_set' = [dataset EXCEPT !.rows = rows]
          /\ test_set' = [dataset EXCEPT !.rows = dataset.rows \ rows]
    /\ kcell' = KerasBelow(kcell)
    /\ UNCHANGED <<value, z, raw_dataset, dataset, trained_model, kraised,
                   eval_model, eval_set, evaluated, score>>
    /\ UNCHANGED <<cellvars, kernelvars, sessvars>>

\* trainer.train(training_set) of a trainer that reads TrainerColumns: the trained
\* model m is bound, or the job fails on a column the set does not have
Train(m) ==
    /\ IF TrainerColumns \subseteq training_set.cols
       THEN trained_model' = m /\ UNCHANGED kraised
       ELSE /\ kraised' = kraised \cup
                   {[cell |-> kcell, missing |-> c] : c \in TrainerColumns \ training_set.cols}
            /\ UNCHANGED trained_model
    /\ kcell' = KerasBelow(kcell)
    /\ UNCHANGED <<value, z, raw_dataset, dataset, training_set, test_set,
                   eval_model, eval_set, evaluated, score>>
    /\ UNCHANGED <<cellvars, kernelvars, sessvars>>

\* trainer = SingleTrainer(...); trained_model = trainer.train(training_set)
SingleTrainerCell == kcell = "train_single" /\ Train("single_trained")

\* trainer = AEASGD(...); trained_model = trainer.train(training_set)
AEASGDCell == kcell = "train_aeasgd" /\ Train("aeasgd_trained")

\* the kernel after raw_dataset is read: the file has some of the rows 1..DataRows
InitKeras ==
    /\ ElsewhereIdle
    /\ value = <<0, 1>>
    /\ z = NotCalled
    /\ kcell = "assemble"
    /\ \E rows \in SUBSET (1..DataRows) :
          raw_dataset = [bound |-> TRUE, cols |-> RawColumns, rows |-> rows]
    /\ dataset = NoFrame
    /\ training_set = NoFrame
    /\ test_set = NoFrame
    /\ trained_model = "unbound"
    /\ kraised = {}
    /\ eval_model = "unbound"
    /\ eval_set = NoFrame
    /\ evaluated = "unbound"
    /\ score = NotEvaluated

NextKeras == AssembleCell \/ ScaleIndexCell \/ SplitCell \/ SingleTrainerCell \/ AEASGDCell

SpecKeras == InitKeras /\ [][NextKeras]_vars

(***************************************************************************)
(* The contract's own quantities: the line through the first and the last  *)
(* sweep point and each point's distance below it, in exact real           *)
(* arithmetic (Distance) and in 64-bit floating point (FloatScores).       *)
(* Defined for finite errors and p_n # p_1.                                *)
(***************************************************************************)
N == Len(n_est)
P(i) == <<n_est[i], 1>>
E(i) == Q(val_mad[i])
LineSlope == QDiv(QSub(E(N), E(1)), QSub(P(N), P(1)))
LineIntercept == QSub(E(1), QMul(LineSlope, P(1)))
LineAt(i) == QAdd(QMul(LineSlope, P(i)), LineIntercept)
Distance(i) == QSub(LineAt(i), E(i))
\* the scores line(p_i) - e_i with every operation in 64-bit floating point
AsFloat(v) == IF v.k = "int" THEN [v EXCEPT !.k = "float"] ELSE v
FloatScores ==
    LET vm == [i \in 1..N |-> AsFloat(val_mad[i])]
        sl == SlopeOf(n_est, vm)
        ic == InterceptOf(n_est, vm, sl)
    IN  Scores(n_est, vm, sl, ic)

\* the cell has run and printed a value
Returned == pc = "done" /\ raised = "none" /\ Len(stdout) = 1
\* the position, counted from 1, of the selected sweep point
Selected == best_n + 1
\* what the cell computes as line values and as distances below the line
CellLine == [i \in 1..N |-> PyAdd(PyMul(PyInt(n_est[i]), slope), intercept)]
CellScores == Scores(n_est, val_mad, slope, intercept)

StrictlyIncreasing == \A i \in 1..(N - 1) : n_est[i] < n_est[i + 1]
AllFinite == \A i \in 1..N : IsFin(val_mad[i])
OnLine(i) == E(i) = LineAt(i)
IntErrors == \A i \in 1..N : val_mad[i].k = "int"
\* The cell defines no error classes of its own. An error outcome of the contract
\* (InvalidSweepError, DegenerateSweepError) is read as: the cell ended in an
\* exception, of whatever class, and printed no value.
Rejected == raised # "none" /\ stdout = <<>>

(***************************************************************************)
(* C1: for every valid sweep the cell prints a parameter value p_k whose   *)
(* distance below the line, (slope*p_k + intercept) - e_k with the exact   *)
(* slope (e_n - e_1)/(p_n - p_1), is at least that of every other index.   *)
(***************************************************************************)
C1_SelectsMaxScore ==
    pc = "done" =>
        /\ raised = "none"
        /\ stdout = <<n_est[Selected]>>
        /\ \A j \in 1..N : QLeq(Distance(j), Distance(Selected))

\* The same statement for error lists of floats only (Python float, numpy.float64),
\* where Python 2 does not floor the quotient.
C1_FloatSweeps == IntErrors \/ C1_SelectsMaxScore

C3_ValueFromSweep ==
    pc = "done" =>
        /\ raised = "none"
        /\ "best_n" \in defined
        /\ best_n \in 0..(N - 1)
        /\ stdout = <<n_est[best_n + 1]>>
        /\ \E i \in 1..N : stdout[1] = n_est[i]

\* an interior point of a sweep that does not start at 1 is selected
C3_Witness ==
    /\ Returned
    /\ best_n \in 1..(N - 2)
    /\ n_est[1] > 1
    /\ stdout[1] = n_est[best_n + 1]
    /\ stdout[1] # best_n

(***************************************************************************)
(* C4: a sweep of one point ends in an error (InvalidSweepError) and       *)
(* prints no value.                                                        *)
(***************************************************************************)
C4_SinglePointRejected == (pc = "done" /\ N = 1 /\ AllFinite) => Rejected

(***************************************************************************)
(* C5: a sweep with p_1 = p_n (n >= 2) ends in an error                    *)
(* (DegenerateSweepError) that is not a division by zero; there is no      *)
(* selection on nan and no value is printed.                               *)
(***************************************************************************)
C5_ZeroWidthRejected ==
    (pc = "done" /\ N >= 2 /\ n_est[1] = n_est[N] /\ AllFinite) =>
        (Rejected /\ raised # "ZeroDivisionError")

(***************************************************************************)
(* C6: a sweep whose parameters are not strictly increasing, with          *)
(* p_1 # p_n, ends in an error (InvalidSweepError) and prints no value.    *)
(***************************************************************************)
C6_UnorderedRejected ==
    (pc = "done" /\ N >= 2 /\ ~StrictlyIncreasing /\ n_est[1] # n_est[N] /\ AllFinite) =>
        Rejected

(***************************************************************************)
(* C7: a sweep with a non-finite error ends in an error                    *)
(* (InvalidSweepError); the non-finite value takes no part in the arg-max  *)
(* and no value is printed.                                                *)
(***************************************************************************)
C7_NonFiniteRejected ==
    (pc = "done" /\ ~AllFinite) => Rejected

(***************************************************************************)
(* C8: when every point of a valid sweep lies exactly on the line through  *)
(* the first and the last point, the cell selects index 0 and prints p_1.  *)
(***************************************************************************)
C8_LinearGivesFirst ==
    (pc = "done" /\ \A i \in 1..N : OnLine(i)) =>
        /\ raised = "none"
        /\ best_n = 0
        /\ stdout = <<n_est[1]>>

(***************************************************************************)
(* C9: when exactly one interior point lies strictly below the line and    *)
(* every other point lies on it, the cell prints that point's parameter.   *)
(***************************************************************************)
C9_SingleDipSelected ==
    pc = "done" =>
        \A k \in 2..(N - 1) :
            (QLess(E(k), LineAt(k)) /\ \A i \in (1..N) \ {k} : OnLine(i)) =>
                (raised = "none" /\ stdout = <<n_est[k]>>)

\* The same statement for error lists of floats only.
C9_FloatSweeps == IntErrors \/ C9_SingleDipSelected

(***************************************************************************)
(* C10: the slope is the exact quotient (e_n - e_1)/(p_n - p_1), never     *)
(* floored, also for integer inputs; for [1,2,3,4,5] and [10,8,3,7,9] the  *)
(* slope is -1/4, the line values are 10, 39/4, 19/2, 37/4, 9, the         *)
(* distances 0, 7/4, 13/2, 9/4, 0 and the printed value is 3.              *)
(***************************************************************************)
C10_ExactSlope ==
    pc = "done" =>
        /\ raised = "none"
        /\ IsFin(slope) /\ Q(slope) = LineSlope
        /\ (n_est = ExampleParams /\ \E kind \in Kinds : val_mad = ExampleErrors(kind)) =>
              /\ Q(slope) = <<-1, 4>>
              /\ [i \in 1..N |-> Q(CellLine[i])]
                    = <<(<<10, 1>>), (<<39, 4>>), (<<19, 2>>), (<<37, 4>>), (<<9, 1>>)>>
              /\ [i \in 1..N |-> Q(CellScores[i])]
                    = <<(<<0, 1>>), (<<7, 4>>), (<<13, 2>>), (<<9, 4>>), (<<0, 1>>)>>
              /\ stdout = <<3>>

\* The same statement for error lists of floats only: the slope is the double
\* nearest to the quotient (Q leaves the rounding error, a multiple of u, aside).
C10_FloatSweeps == IntErrors \/ C10_ExactSlope

(***************************************************************************)
(* C11: the value reported as best is the swept value whose validation     *)
(* error is furthest away from the line, above or below: it maximizes      *)
(* |line(n) - error(n)| over all swept values.                             *)
(***************************************************************************)
QAbs(q) == <<Abs(q[1]), q[2]>>
C11_MaxAbsDistance ==
    Returned =>
        /\ stdout = <<n_est[Selected]>>
        /\ \A j \in 1..N : QLeq(QAbs(Distance(j)), QAbs(Distance(Selected)))

(***************************************************************************)
(* C12: the selection is a pure function of n_est and val_mad: a run from  *)
(* a state that has the same two lists and differs in the other variables  *)
(* (the state a first run leaves) gives the same value, and a run changes  *)
(* no state other than its result, the value printed and best_n.           *)
(***************************************************************************)
C12_PureFunction ==
    [][/\ (pc = "done" /\ raised = "none") => (stdout' = stdout /\ best_n' = best_n)
       /\ slope' = slope
       /\ intercept' = intercept
       /\ defined' \ {"best_n"} = defined \ {"best_n"}
       /\ n_est' = n_est
       /\ val_mad' = val_mad
       /\ kernelvars' = kernelvars]_vars

(***************************************************************************)
(* C13: a run of the selection leaves n_est and val_mad as they were: the  *)
(* same length and the same elements in the same order.                    *)
(***************************************************************************)
C13_InputsUnchanged ==
    [][cell = "elbow" => (n_est' = n_est /\ val_mad' = val_mad)]_vars

\* the selection has run on a sweep of three or more points of each type
C13_Witness ==
    /\ Returned
    /\ cell = "elbow"
    /\ N >= 3
    /\ Len(val_mad) = N
    /\ "slope" \in defined

(***************************************************************************)
(* C14: whenever the elbow selection cell is about to run in the notebook, *)
(* n_est holds at least two values, all positive integers, strictly        *)
(* increasing, so n_est[-1] - n_est[0] is not zero.                        *)
(***************************************************************************)
C14_SweepHasRange ==
    cell = "elbow" =>
        /\ N >= 2
        /\ \A j \in 1..N : n_est[j] \in Nat \ {0}
        /\ StrictlyIncreasing
        /\ n_est[N] - n_est[1] # 0

\* the sweep has ended and the selection is the next cell
C14_Witness ==
    /\ cell = "elbow"
    /\ pc = "ready"
    /\ swept = SweepStop - 1
    /\ n_est[1] = 1 /\ n_est[N] = SweepStop - 1

(***************************************************************************)
(* C15: the sweep loop records one error per swept value, in sweep order:  *)
(* after i iterations val_mad has length i and its j-th entry is the error *)
(* of the model built with n_estimators = n_est[j]; after the loop         *)
(* len(val_mad) = len(n_est).                                              *)
(***************************************************************************)
C15_OneErrorPerValue ==
    /\ Len(mad_model) = Len(val_mad)
    /\ (cell = "sweep" /\ pc = "loop") =>
          /\ Len(val_mad) = swept
          /\ \A j \in 1..swept : mad_model[j] = n_est[j]
    /\ cell # "sweep" =>
          /\ Len(val_mad) = Len(n_est)
          /\ \A j \in 1..N : mad_model[j] = n_est[j]

\* the loop is half way through a sweep with two different errors
C15_Witness ==
    /\ cell = "sweep" /\ pc = "loop"
    /\ swept >= 2 /\ swept < Len(n_est)
    /\ val_mad[1] # val_mad[2]
    /\ val_model.n_estimators = n_est[swept]

(***************************************************************************)
(* C16: once the sweep loop has finished, no later cell (selection, fit,   *)
(* test score, refit, write, load, pulls, save, cleanup) changes n_est or  *)
(* val_mad, and only the selection reads val_mad.                          *)
(***************************************************************************)
C16_SweepResultImmutable ==
    [][cell # "sweep" =>
          /\ n_est' = n_est
          /\ val_mad' = val_mad
          /\ \A r \in reads' : r[2] = "val_mad" => r[1] \in {"sweep", "elbow"}]_vars

\* the notebook has run to its end and the selection has read val_mad
C16_Witness ==
    /\ cell = "end"
    /\ <<"elbow", "val_mad">> \in reads
    /\ <<"refit", "n_est">> \in reads
    /\ Len(val_mad) = SweepStop - 1

(***************************************************************************)
(* C17: gbtr and gbtr_dec, and the models written to HDFS as gbtr_jun and  *)
(* gbtr_dec, have n_estimators equal to the value the selection printed,   *)
(* which stays n_est[best_n] from the selection to the end.                *)
(***************************************************************************)
C17_ModelsUseSelection ==
    /\ \A m \in {gbtr, gbtr_dec, hdfs["gbtr_jun"], hdfs["gbtr_dec"]} :
          m.fitted # "unbound" =>
              /\ Len(stdout) = 1
              /\ m.n_estimators = stdout[1]
              /\ m.n_estimators = n_est[best_n + 1]
    /\ cell \in {"load", "pull_x", "pull_y", "import_save", "save_jun", "save_dec",
                  "cleanup", "end"} =>
          /\ hdfs["gbtr_jun"] = gbtr /\ gbtr.fitted = "all_jun"
          /\ hdfs["gbtr_dec"] = gbtr_dec /\ gbtr_dec.fitted = "all_dec"

\* both models are on HDFS and the selection was not the first sweep value
C17_Witness ==
    /\ cell = "end"
    /\ hdfs["gbtr_jun"].fitted = "all_jun"
    /\ hdfs["gbtr_dec"].fitted = "all_dec"
    /\ best_n > 0
    /\ hdfs["gbtr_dec"].n_estimators = best_n + 1

(***************************************************************************)
(* C18: in each notebook run top to bottom, every cell with a first line   *)
(* %%spark runs only after sparkmagic is loaded, session_name is bound and *)
(* the session has been opened with %spark add.                            *)
(***************************************************************************)
C18_RemoteAfterOpen ==
    \A r \in remote_log : r.magics /\ r.named /\ r.session = "open"

(***************************************************************************)
(* C19: each notebook run top to bottom comes to its %spark cleanup, which *)
(* closes the session, and no cell with a first line %%spark (the pulls    *)
(* with -o included) runs after the cleanup.                               *)
(***************************************************************************)
C19_ClosedAtEnd ==
    /\ <>(AtEnd /\ cleaned /\ session = "closed")
    /\ [](\A r \in remote_log : ~r.cleaned /\ r.session # "closed")
    /\ [](cleaned => session = "closed")

\* the notebook is at its end: remote cells have run in the open session and the
\* session is closed
C19_Witness ==
    /\ AtEnd
    /\ cleaned /\ session = "closed"
    /\ \E r \in remote_log : r.session = "open" /\ r.line > 700

(***************************************************************************)
(* C20: every model loaded with load_model_from_hdfs(model_name = N) is a  *)
(* version of N that write_model_to_hdfs wrote earlier in the same run,    *)
(* in a cell above the load and in the open session; every model passed to *)
(* save() is a local name bound by such a load.                            *)
(***************************************************************************)
WrittenThisRun(l) ==
    \E w \in written :
        /\ w.name = l.name /\ w.version = l.version
        /\ w.line < l.line
        /\ w.session = "open"
C20_LoadedWasWritten ==
    /\ \A l \in loaded : WrittenThisRun(l)
    /\ \A sv \in saved : \E l \in loaded : l.var = sv.var /\ l.line < sv.line /\ WrittenThisRun(l)
    /\ AtEnd => \A c \in RangeOf(CellsOf(nb)) :
                  c.kind = "save" => \A v \in RangeOf(c.names) : \E sv \in saved : sv.var = v

\* two models were loaded and saved although HDFS held older versions of them
C20_Witness ==
    /\ AtEnd
    /\ \E l \in loaded : l.version > 1
    /\ \E s1 \in saved, s2 \in saved : s1.var # s2.var

(***************************************************************************)
(* C21: the sweep and the selection terminate: the sweep loop makes        *)
(* exactly len(n_est) iterations and stops, and the selection cell         *)
(* finishes in one pass over the sweep points (one score per point).       *)
(***************************************************************************)
C21_SweepAndSelectionEnd ==
    /\ <>(cell # "sweep" /\ swept = Len(n_est) /\ Len(n_est) = SweepStop - 1)
    /\ [](Len(mad_model) = swept /\ swept <= Len(n_est))
    /\ [](cell # "sweep" => swept = Len(n_est))
    /\ [][cell = "elbow" =>
            /\ cell' = "fit" /\ pc' = "done" /\ raised' = "none"
            /\ Len(scores') = Len(n_est)]_vars

\* the loop has made all its iterations and the selection has finished
C21_Witness ==
    /\ cell = "fit" /\ pc = "done" /\ raised = "none"
    /\ swept = SweepStop - 1
    /\ Len(mad_model) = Len(n_est)

(***************************************************************************)
(* C22: every sweep error comes from a model fitted on the training split  *)
(* and scored on the validation split; no sweep iteration and no step of   *)
(* the selection reads the test split, which is first read when the        *)
(* recommended value is fixed.                                             *)
(***************************************************************************)
C22_TestSplitHeldOut ==
    /\ [](\A r \in reads : r[1] \in {"sweep", "elbow"} => r[2] \notin TestSplit)
    /\ []((cell = "sweep" /\ swept >= 1) =>
            /\ val_model.fitted = "train"
            /\ \A name \in TrainSplit \cup ValSplit : <<"sweep", name>> \in reads)
    /\ [][\A r \in reads' \ reads :
            r[2] \in TestSplit =>
                /\ Len(stdout) = 1 /\ "best_n" \in defined
                /\ stdout = <<n_est[best_n + 1]>>
                /\ stdout' = stdout /\ best_n' = best_n /\ n_est' = n_est]_vars

\* the test split has been read, by the cell that scores gbtr, and by no other
C22_Witness ==
    /\ cell = "end"
    /\ <<"score", "x_test">> \in reads /\ <<"score", "y_test">> \in reads
    /\ <<"sweep", "x_val">> \in reads
    /\ \A r \in reads : r[2] \in TestSplit => r[1] = "score"

(***************************************************************************)
(* C23: for every valid sweep the selected point is not above the line     *)
(* through the first and the last point: line(p_k) - e_k >= 0 in exact     *)
(* arithmetic on the values the lists hold.                                *)
(***************************************************************************)
\* The exact value of an error is Q + U*u. line(p_i) - e_i is linear in the errors,
\* so its exact value is Distance(i) + DistanceU(i)*u, the same expression on the
\* U parts; u is far below every nonzero Distance.
EU(i) == U(val_mad[i])
DistanceU(i) ==
    QSub(QAdd(QMul(QDiv(QSub(EU(N), EU(1)), QSub(P(N), P(1))), QSub(P(i), P(1))), EU(1)),
         EU(i))
NotAboveLine(i) == Distance(i)[1] > 0 \/ (Distance(i)[1] = 0 /\ DistanceU(i)[1] >= 0)
C23_NeverAboveLine ==
    (Returned /\ N >= 2 /\ StrictlyIncreasing /\ AllFinite) => NotAboveLine(Selected)

(***************************************************************************)
(* C24: for every valid sweep the cell never prints the last value p_n,    *)
(* and it prints the first value p_1 exactly when no sweep point lies      *)
(* strictly below the line through the first and the last point.           *)
(***************************************************************************)
StrictlyBelowLine(i) == Distance(i)[1] > 0 \/ (Distance(i)[1] = 0 /\ DistanceU(i)[1] > 0)
C24_NeverLastFirstIffNoneBelow ==
    (Returned /\ N >= 2 /\ StrictlyIncreasing /\ AllFinite) =>
        /\ stdout[1] # n_est[N]
        /\ (stdout[1] = n_est[1]) <=> (\A i \in 1..N : ~StrictlyBelowLine(i))

(***************************************************************************)
(* C25: adding an affine function a*p + b of the parameter to every error  *)
(* does not change the printed value: the cell run on e_i + a*p_i + b      *)
(* prints what it prints on e_i (a = 0: a shift of all errors by b).       *)
(***************************************************************************)
\* the value the statements of the cell print for the error list vmad
SelectedFor(vmad) ==
    LET sl == SlopeOf(n_est, vmad)
        ic == InterceptOf(n_est, vmad, sl)
    IN  Recommended(n_est, ArgMax(Scores(n_est, vmad, sl, ic)))
\* the error list e_i + a*p_i + b in the type of val_mad (the sums are small
\* integers, which every type holds exactly)
AffineShift(a, b) ==
    [i \in 1..N |-> PyNum(val_mad[i].k, <<val_mad[i].n + a * n_est[i] + b, 1>>)]
NonNegative(vmad) == \A i \in 1..Len(vmad) : vmad[i].n >= 0
C25_AffineInvariant ==
    (Returned /\ N >= 2 /\ StrictlyIncreasing /\ AllFinite) =>
        \A a \in -1..1, b \in 0..1 :
            NonNegative(AffineShift(a, b)) => SelectedFor(AffineShift(a, b)) = stdout[1]

\* The same statement for lists of Python ints only.
C25_IntSweeps == IntErrors => C25_AffineInvariant

(***************************************************************************)
(* C26: re-running cells does not corrupt the sweep: every complete run of *)
(* the sweep cell leaves len(val_mad) = len(n_est), errors do not          *)
(* accumulate over runs, and running the selection cell again on an        *)
(* unchanged sweep gives the same best_n.                                  *)
(***************************************************************************)
C26_RerunsKeepSweep ==
    /\ [](cell # "sweep" => (Len(val_mad) = Len(n_est) /\ Len(n_est) = SweepStop - 1))
    /\ []((cell = "sweep" /\ pc = "loop") => Len(val_mad) = swept)
    /\ [][(cell = "elbow" /\ pc = "done" /\ raised = "none" /\ cell' = "fit") =>
            (best_n' = best_n /\ stdout' = stdout /\ val_mad' = val_mad)]_vars

\* the sweep cell has run to its end again after a selection that printed another
\* value than the first of the sweep
C26_Witness ==
    /\ cell = "elbow" /\ pc = "ready"
    /\ "best_n" \in defined /\ best_n > 0
    /\ Len(val_mad) = Len(n_est) /\ swept = SweepStop - 1

(***************************************************************************)
(* C27: determine_z is a total classification of a finite value: 0 for     *)
(* v < -1, 1 for -1 <= v < 0, 2 for 0 <= v < 1, 3 for v >= 1, never None,  *)
(* and non-decreasing in v.                                                *)
(***************************************************************************)
C27_DetermineZTotal ==
    z.called =>
        /\ ~z.none
        /\ z.class \in 0..3
        /\ (z.class = 0) <=> QLess(value, <<-1, 1>>)
        /\ (z.class = 1) <=> (QLeq(<<-1, 1>>, value) /\ QLess(value, <<0, 1>>))
        /\ (z.class = 2) <=> (QLeq(<<0, 1>>, value) /\ QLess(value, <<1, 1>>))
        /\ (z.class = 3) <=> QLeq(<<1, 1>>, value)
        /\ \A w \in ZValues : QLeq(w, value) => DetermineZ(w).class <= z.class

\* the boundary value -1.0 has been classified
C27_Witness == z = Returns(1) /\ value = <<-1, 1>>

(***************************************************************************)
(* C28: the score evaluate_accuracy(model, test_set) returns depends on    *)
(* its two arguments only: the same in every kernel, whatever the global   *)
(* trained_model is, and the model evaluated is the argument model.        *)
(***************************************************************************)
C28_ScoreOfArguments ==
    score.state # "pending" =>
        /\ \A tm \in KerasModels \cup {"unbound"} :
              EvaluateAccuracy(eval_model, eval_set, tm).score = score
        /\ score.state = "returned" => (evaluated = eval_model /\ score.model = eval_model)

(***************************************************************************)
(* C29: in the Keras notebook run top to bottom, every column a trainer or *)
(* the evaluator reads ("features_normalized", "label", "label_index") is  *)
(* in the dataset when training_set and test_set are split off, and no     *)
(* trainer.train fails on a missing column.                                *)
(***************************************************************************)
C29_ColumnsBeforeSplitAndTrain ==
    /\ training_set.bound =>
          /\ TrainerColumns \cup EvalColumns \subseteq training_set.cols
          /\ TrainerColumns \cup EvalColumns \subseteq test_set.cols
    /\ kraised = {}

====
